---- MODULE Spec2Model ----
(***************************************************************************)
(* Model of class Sam of pyCommonTools.py: the constructor that parses one *)
(* tab-delimited alignment line, the optional-field decoder and encoder,   *)
(* and the derived coordinate properties.  Text is modelled as sequences   *)
(* of one-character strings so that split, rindex, int(), the regular      *)
(* expression of reference_length and the f-string of get_record are       *)
(* computed character by character, as the code computes them.             *)
(***************************************************************************)
EXTENDS Integers, Sequences, FiniteSets, TLC

VARIABLES line, pc, self, exc, ret

vars == <<line, pc, self, exc, ret>>

(* ------------------------------ characters ----------------------------- *)

TAB == "\t"
NL == "\n"
COLON == ":"

DigitSeq == <<"0", "1", "2", "3", "4", "5", "6", "7", "8", "9">>

Digits == {DigitSeq[i] : i \in 1..10}

Letters ==
  {"A","B","C","D","E","F","G","H","I","J","K","L","M","N","O","P","Q","R",
   "S","T","U","V","W","X","Y","Z","a","b","c","d","e","f","g","h","i","j",
   "k","l","m","n","o","p","q","r","s","t","u","v","w","x","y","z"}

Whitespace == {" ", "\t", "\n", "\r", "\f"}

DigitVal(c) == CHOOSE d \in 0..9 : DigitSeq[d + 1] = c

(* ------------------------ outcomes of an evaluation -------------------- *)

Ok(v) == [err |-> "none", val |-> v]

Raise(e) == [err |-> e, val |-> 0]

(* ------------------------------ str methods ---------------------------- *)

\* str.split(sep): the tokens between occurrences of sep, at least one token
RECURSIVE SplitFrom(_, _, _, _, _)
SplitFrom(s, sep, i, cur, acc) ==
  IF i > Len(s) THEN Append(acc, cur)
  ELSE IF s[i] = sep THEN SplitFrom(s, sep, i + 1, <<>>, Append(acc, cur))
  ELSE SplitFrom(s, sep, i + 1, Append(cur, s[i]), acc)

Split(s, sep) == SplitFrom(s, sep, 1, <<>>, <<>>)

\* str.rindex(c): 0-based index of the last c, ValueError when there is none
rindex(s, c) ==
  LET at == {i \in 1..Len(s) : s[i] = c}
  IN IF at = {} THEN Raise("ValueError")
     ELSE Ok((CHOOSE i \in at : \A j \in at : j <= i) - 1)

\* faulty variant: a missing token reads as the empty string
SubscriptOrEmpty(record, i) ==
  IF i < Len(record) THEN Ok(record[i + 1]) ELSE Ok(<<>>)

\* record[i] on a list (0-based): IndexError past the end
Subscript(record, i) ==
  IF i < Len(record) THEN Ok(record[i + 1]) ELSE Raise("IndexError")

\* record[11:]
SliceFrom(record, i) ==
  IF i >= Len(record) THEN <<>> ELSE SubSeq(record, i + 1, Len(record))

\* str.strip() as applied by int() and float() to their argument
Strip(s) ==
  LET keep == {i \in 1..Len(s) : s[i] \notin Whitespace}
  IN IF keep = {} THEN <<>>
     ELSE SubSeq(s, CHOOSE i \in keep : \A j \in keep : i <= j,
                    CHOOSE i \in keep : \A j \in keep : j <= i)

(* --------------------------------- int --------------------------------- *)

\* the part of an integer literal after the sign: digits, single underscores
\* allowed between digits
IsDigitBody(b) ==
  /\ Len(b) > 0
  /\ b[1] \in Digits
  /\ b[Len(b)] \in Digits
  /\ \A i \in 1..Len(b) : b[i] \in Digits \cup {"_"}
  /\ \A i \in 1..(Len(b) - 1) : ~(b[i] = "_" /\ b[i + 1] = "_")

Unsigned(s) ==
  IF Len(s) > 0 /\ s[1] \in {"+", "-"} THEN SubSeq(s, 2, Len(s)) ELSE s

RECURSIVE DigitsValueFrom(_, _, _)
DigitsValueFrom(b, i, acc) ==
  IF i > Len(b) THEN acc
  ELSE IF b[i] = "_" THEN DigitsValueFrom(b, i + 1, acc)
  ELSE DigitsValueFrom(b, i + 1, 10 * acc + DigitVal(b[i]))

DigitsValue(b) == DigitsValueFrom(b, 1, 0)

\* int(s) for a str argument, base 10
int(s) ==
  LET t == Strip(s)
      b == Unsigned(t)
  IN IF ~IsDigitBody(b) THEN Raise("ValueError")
     ELSE IF Len(t) > 0 /\ t[1] = "-" THEN Ok(0 - DigitsValue(b))
     ELSE Ok(DigitsValue(b))

\* f'{n}' for an int n: canonical decimal text
RECURSIVE NatStr(_)
NatStr(n) ==
  IF n < 10 THEN <<DigitSeq[n + 1]>>
  ELSE Append(NatStr(n \div 10), DigitSeq[(n % 10) + 1])

\* faulty variant: the sign is lost
IntStrUnsigned(n) == IF n < 0 THEN NatStr(0 - n) ELSE NatStr(n)

IntStr(n) == IF n < 0 THEN <<"-">> \o NatStr(0 - n) ELSE NatStr(n)

(* -------------------------------- float -------------------------------- *)

\* A float is kept as the decimal it denotes: (-1)^neg * mant / 10^scale, with
\* no trailing zero in the fraction.  This is exact for the literals without
\* exponent, inf or nan and with at most 15 significant digits, for which
\* repr(float(s)) prints that same decimal.
RECURSIVE Normalise(_)
Normalise(f) ==
  IF f.scale > 0 /\ f.mant % 10 = 0
  THEN Normalise([f EXCEPT !.mant = f.mant \div 10, !.scale = f.scale - 1])
  ELSE f

CountDigits(b) == Cardinality({i \in 1..Len(b) : b[i] \in Digits})

\* float(s) for a str argument
float(s) ==
  LET t == Strip(s)
      b == Unsigned(t)
      dots == {i \in 1..Len(b) : b[i] = "."}
      dot == IF dots = {} THEN Len(b) + 1 ELSE CHOOSE i \in dots : TRUE
      ip == SubSeq(b, 1, dot - 1)
      fp == SubSeq(b, dot + 1, Len(b))
  IN IF \/ Cardinality(dots) > 1
        \/ (ip = <<>> /\ fp = <<>>)
        \/ (ip # <<>> /\ ~IsDigitBody(ip))
        \/ (fp # <<>> /\ ~IsDigitBody(fp))
     THEN Raise("ValueError")
     ELSE Ok(Normalise([kind |-> "float",
                        neg |-> (Len(t) > 0 /\ t[1] = "-"),
                        mant |-> DigitsValue(ip \o fp),
                        scale |-> CountDigits(fp)]))

RECURSIVE Pow10(_)
Pow10(n) == IF n = 0 THEN 1 ELSE 10 * Pow10(n - 1)

RECURSIVE ZeroPad(_, _)
ZeroPad(s, n) == IF Len(s) >= n THEN s ELSE ZeroPad(<<"0">> \o s, n)

\* f'{x}' for a float x in positional notation
FloatStr(f) ==
  (IF f.neg THEN <<"-">> ELSE <<>>)
    \o NatStr(f.mant \div Pow10(f.scale))
    \o <<".">>
    \o (IF f.scale = 0 THEN <<"0">>
        ELSE ZeroPad(NatStr(f.mant % Pow10(f.scale)), f.scale))

(* ------------------------------- dict ---------------------------------- *)

\* d[k] = v on an insertion-ordered dict, kept as a sequence of entries
DictSet(d, k, v) ==
  IF \E i \in 1..Len(d) : d[i].key = k
  THEN [i \in 1..Len(d) |->
          IF d[i].key = k THEN [key |-> k, value |-> v] ELSE d[i]]
  ELSE Append(d, [key |-> k, value |-> v])

StrVal(s) == [kind |-> "str", s |-> s]

IntVal(n) == [kind |-> "int", n |-> n]

\* f'{value}' for a value of the optional dict
ValueStr(v) ==
  IF v.kind = "int" THEN IntStr(v.n)
  ELSE IF v.kind = "float" THEN FloatStr(v)
  ELSE v.s

(* ----------------------------- Sam.read_opt ---------------------------- *)

\* the body of the for loop: the value stored for one token, or the error
read_opt_item(opt) ==
  LET r == rindex(opt, COLON)
  IN IF r.err # "none" THEN Raise(r.err)
     ELSE
       LET tag_and_type == SubSeq(opt, 1, r.val)
           type_ == Subscript(Split(opt, COLON), 1).val
           value == SubSeq(opt, r.val + 2, Len(opt))
           coerced == IF type_ = <<"i">> THEN
                        LET n == int(value)
                        IN IF n.err # "none" THEN Raise(n.err)
                           ELSE Ok(IntVal(n.val))
                      ELSE IF type_ = <<"f">> THEN float(value)
                      ELSE Ok(StrVal(value))
       IN IF coerced.err # "none" THEN Raise(coerced.err)
          ELSE Ok([key |-> tag_and_type, value |-> coerced.val])

RECURSIVE read_opt_loop(_, _, _)
read_opt_loop(all_opts, k, d) ==
  IF k > Len(all_opts) THEN Ok(d)
  ELSE LET e == read_opt_item(all_opts[k])
       IN IF e.err # "none" THEN Raise(e.err)
          ELSE read_opt_loop(all_opts, k + 1, DictSet(d, e.val.key, e.val.value))

read_opt(all_opts) == read_opt_loop(all_opts, 1, <<>>)

(* ----------------------------- Sam.get_opt ----------------------------- *)

RECURSIVE get_opt_loop(_, _, _)
get_opt_loop(opt, k, opt_out) ==
  IF k > Len(opt) THEN opt_out
  ELSE get_opt_loop(opt, k + 1,
         opt_out \o opt[k].key \o <<COLON>> \o ValueStr(opt[k].value) \o <<TAB>>)

get_opt(opt) == get_opt_loop(opt, 1, <<>>)

(* ----------------------------- Sam.__init__ ---------------------------- *)

NumFields == 11

\* the attributes in the order the constructor assigns them
Attrs ==
  <<"qname", "flag", "rname", "left_pos", "mapq", "cigar", "rnext", "pnext",
    "tlen", "seq", "qual">>

IntAttrs == {"flag", "left_pos", "mapq", "pnext", "tlen"}

\* the assignments of __init__ from record[i] on; obj holds the attributes
\* assigned so far.  The first exception ends the constructor.
RECURSIVE init_from(_, _, _)
init_from(record, i, obj) ==
  IF i = NumFields THEN
    LET o == read_opt(SliceFrom(record, NumFields))
    IN IF o.err # "none" THEN Raise(o.err)
       ELSE Ok(obj @@ ("optional" :> o.val))
  ELSE
    LET f == Subscript(record, i)
    IN IF f.err # "none" THEN Raise(f.err)
       ELSE IF Attrs[i + 1] \in IntAttrs THEN
         LET n == int(f.val)
         IN IF n.err # "none" THEN Raise(n.err)
            ELSE init_from(record, i + 1, obj @@ (Attrs[i + 1] :> n.val))
       ELSE init_from(record, i + 1, obj @@ (Attrs[i + 1] :> f.val))

\* Sam(record): the new object, or the exception the constructor raised
Sam(record) == init_from(Split(record, TAB), 0, <<>>)

(* --------------------------- flag properties --------------------------- *)

\* a & b for b >= 0 (two's complement for a negative a, as in Python)
RECURSIVE BitAnd(_, _)
BitAnd(a, b) ==
  IF b = 0 THEN 0
  ELSE (a % 2) * (b % 2) + 2 * BitAnd(a \div 2, b \div 2)

\* faulty variant: the wrong flag bit, 0x20
is_reverse_0x20(obj) == BitAnd(obj.flag, 32) # 0

is_reverse(obj) == BitAnd(obj.flag, 16) # 0

is_read1(obj) == BitAnd(obj.flag, 64) # 0

is_paired(obj) == BitAnd(obj.flag, 1) # 0

(* -------------------------- Sam.reference_length ----------------------- *)

\* the end of the longest run of characters of class cls that starts at i
RunEnd(s, i, cls) ==
  CHOOSE j \in i..Len(s) :
    /\ \A k \in i..j : s[k] \in cls
    /\ (j = Len(s) \/ s[j + 1] \notin cls)

\* re.findall(r'[A-Za-z]+|\d+', s): the maximal runs of letters and of
\* digits, left to right; any other character is skipped
RECURSIVE findall_from(_, _, _)
findall_from(s, i, acc) ==
  IF i > Len(s) THEN acc
  ELSE IF s[i] \in Letters THEN
    findall_from(s, RunEnd(s, i, Letters) + 1,
                 Append(acc, SubSeq(s, i, RunEnd(s, i, Letters))))
  ELSE IF s[i] \in Digits THEN
    findall_from(s, RunEnd(s, i, Digits) + 1,
                 Append(acc, SubSeq(s, i, RunEnd(s, i, Digits))))
  ELSE findall_from(s, i + 1, acc)

findall(s) == findall_from(s, 1, <<>>)

NonReference == {<<"I">>, <<"S">>, <<"H">>, <<"P">>}

\* the for loop over enumerate(cigar_split); idx is 0-based
RECURSIVE reference_length_loop(_, _, _)
reference_length_loop(cigar_split, idx, length) ==
  IF idx >= Len(cigar_split) THEN Ok(length)
  ELSE IF BitAnd(idx, 1) # 0 /\ cigar_split[idx + 1] \notin NonReference THEN
    LET n == int(cigar_split[idx])
    IN IF n.err # "none" THEN Raise(n.err)
       ELSE reference_length_loop(cigar_split, idx + 1, length + n.val)
  ELSE reference_length_loop(cigar_split, idx + 1, length)

reference_length(obj) == reference_length_loop(findall(obj.cigar), 0, 0)

(* --------------------------- derived positions ------------------------- *)

right_pos(obj) ==
  LET l == reference_length(obj)
  IN IF l.err # "none" THEN Raise(l.err)
     ELSE Ok(obj.left_pos + (l.val - 1))

five_prime_pos(obj) ==
  IF is_reverse(obj) THEN right_pos(obj) ELSE Ok(obj.left_pos)

three_prime_pos(obj) ==
  IF is_reverse(obj) THEN Ok(obj.left_pos) ELSE right_pos(obj)

\* faulty variant: a tie goes up
round_half_up(n) == (n + 1) \div 2

\* round(n / 2) for an int n: n / 2 is an exact float below 2^53 and round()
\* takes a tie to the even neighbour
round_half(n) ==
  LET q == n \div 2
  IN IF n % 2 = 0 THEN q
     ELSE IF q % 2 = 0 THEN q ELSE q + 1

middle_pos(obj) ==
  LET r == right_pos(obj)
  IN IF r.err # "none" THEN Raise(r.err)
     ELSE Ok(round_half(r.val + obj.left_pos))

(* ----------------------------- Sam.get_record -------------------------- *)

get_record(obj) ==
  obj.qname \o <<TAB>> \o IntStr(obj.flag) \o <<TAB>> \o obj.rname \o <<TAB>>
    \o IntStr(obj.left_pos) \o <<TAB>> \o IntStr(obj.mapq) \o <<TAB>>
    \o obj.cigar \o <<TAB>> \o obj.rnext \o <<TAB>> \o IntStr(obj.pnext)
    \o <<TAB>> \o IntStr(obj.tlen) \o <<TAB>> \o obj.seq \o <<TAB>>
    \o obj.qual \o <<TAB>> \o get_opt(obj.optional) \o <<NL>>

(* -------------------------------- inputs ------------------------------- *)

MaxCigarLen == 3
MaxOps == 2
MaxIntLen == 3
MaxOpts == 2
MaxPos == 12

SeqsUpTo(S, n) == UNION {[1..k -> S] : k \in 0..n}

RECURSIVE Concat(_)
Concat(ss) == IF ss = <<>> THEN <<>> ELSE Head(ss) \o Concat(Tail(ss))

RECURSIVE Join(_, _)
Join(tokens, sep) ==
  IF tokens = <<>> THEN <<>>
  ELSE IF Len(tokens) = 1 THEN tokens[1]
  ELSE tokens[1] \o <<sep>> \o Join(Tail(tokens), sep)

\* read1 0 chr 100 60 10M * 0 0 AC ##
BaseTokens ==
  << <<"r", "1">>, <<"0">>, <<"c">>, <<"1", "0", "0">>, <<"6", "0">>,
     <<"1", "0", "M">>, <<"*">>, <<"0">>, <<"0">>, <<"A", "C">>, <<"#", "#">> >>

WithToken(tokens, i, t) == [tokens EXCEPT ![i] = t]

CigarCodes == {"M", "I", "D", "N", "S", "H", "P", "=", "X"}

\* every string of up to MaxCigarLen characters, well formed or not
AnyCigars == SeqsUpTo({"1", "2", "M", "I", "=", "*", "?"}, MaxCigarLen)

\* well-formed strings of up to MaxOps operations over the whole alphabet
RunTexts == {<<"3">>, <<"1", "2">>}

OpTexts == {r \o <<c>> : r \in RunTexts, c \in CigarCodes}

WellFormedCigars == {Concat(ops) : ops \in SeqsUpTo(OpTexts, MaxOps) \ {<<>>}}

ExampleCigars ==
  { <<"5", "M", "2", "I", "3", "M">>, <<"1", "0", "M">>, <<"0", "5", "M">>,
    <<"5", "=", "3", "M">>, <<"2", "S", "4", "M", "1", "D", "3", "X">> }

CigarLines ==
  {Join(WithToken(BaseTokens, 6, c), TAB) :
     c \in AnyCigars \cup WellFormedCigars \cup ExampleCigars}

\* coordinates and flags
FlagSet == {0, 1, 16, 17, 32, 83, 99, 147, 163, 4095}

CoordCigars ==
  { <<"*">>, <<"1", "0", "M">>, <<"5", "M", "2", "I", "3", "M">>, <<"3", "M">>,
    <<"4", "M">>, <<"M", "1">> }

CoordLines ==
  {Join(WithToken(WithToken(WithToken(BaseTokens, 2, IntStr(f)), 4, IntStr(p)),
                  6, c), TAB) :
     f \in FlagSet, p \in 0..MaxPos, c \in CoordCigars}

\* textual forms of the integer fields POS and TLEN
IntTexts == SeqsUpTo({"0", "7", "-", "+", " ", "_"}, MaxIntLen)

IntLines ==
  {Join(WithToken(BaseTokens, i, t), TAB) : i \in {4, 9}, t \in IntTexts}

\* optional fields, and the newline that ends a line read from a file
OptTokens ==
  { <<"N", "M", ":", "i", ":", "3">>,
    <<"N", "M", ":", "i", ":", "7">>,
    <<"N", "M", ":", "i", ":", "x">>,
    <<"N", "M", ":", "i", ":", "3", ":", "4">>,
    <<"A", "S", ":", "f", ":", "1", "2", ".", "5">>,
    <<"X", "A", ":", "Z", ":", "a", ":", "b">>,
    <<"X", "S", ":", "A", ":", "+">>,
    <<"N", "M", ":", "3">>,
    <<"N", "M">>,
    <<>> }

Endings == {<<>>, <<NL>>}

OptLines ==
  {Join(BaseTokens \o opts, TAB) \o e :
     opts \in SeqsUpTo(OptTokens, MaxOpts), e \in Endings}

\* lines cut short after k tokens
ShortLines ==
  {Join(SubSeq(WithToken(BaseTokens, 2, f), 1, k), TAB) \o e :
     f \in {<<"0">>, <<"x">>}, k \in 0..NumFields, e \in Endings}

Lines == CigarLines \cup CoordLines \cup IntLines \cup OptLines \cup ShortLines

(* ------------------------------- behaviour ----------------------------- *)

NoReturn == [op |-> "none", err |-> "none", val |-> 0, text |-> <<>>]

Returned(name, r) ==
  [op |-> name, err |-> r.err, val |-> r.val, text |-> <<>>]

Init ==
  /\ line \in Lines
  /\ pc = "unparsed"
  /\ self = <<>>
  /\ exc = "none"
  /\ ret = NoReturn

\* sam = Sam(line): when __init__ raises, no object is bound
SamInit ==
  /\ pc = "unparsed"
  /\ LET r == Sam(line)
     IN IF r.err = "none"
        THEN pc' = "parsed" /\ self' = r.val /\ exc' = "none"
        ELSE pc' = "error" /\ self' = <<>> /\ exc' = r.err
  /\ UNCHANGED <<line, ret>>

ReferenceLength ==
  /\ pc = "parsed"
  /\ ret' = Returned("reference_length", reference_length(self))
  /\ UNCHANGED <<line, pc, self, exc>>

RightPos ==
  /\ pc = "parsed"
  /\ ret' = Returned("right_pos", right_pos(self))
  /\ UNCHANGED <<line, pc, self, exc>>

FivePrimePos ==
  /\ pc = "parsed"
  /\ ret' = Returned("five_prime_pos", five_prime_pos(self))
  /\ UNCHANGED <<line, pc, self, exc>>

ThreePrimePos ==
  /\ pc = "parsed"
  /\ ret' = Returned("three_prime_pos", three_prime_pos(self))
  /\ UNCHANGED <<line, pc, self, exc>>

MiddlePos ==
  /\ pc = "parsed"
  /\ ret' = Returned("middle_pos", middle_pos(self))
  /\ UNCHANGED <<line, pc, self, exc>>

GetRecord ==
  /\ pc = "parsed"
  /\ ret' = [op |-> "get_record", err |-> "none", val |-> 0,
             text |-> get_record(self)]
  /\ UNCHANGED <<line, pc, self, exc>>

Next ==
  \/ SamInit
  \/ ReferenceLength
  \/ RightPos
  \/ FivePrimePos
  \/ ThreePrimePos
  \/ MiddlePos
  \/ GetRecord

Spec == Init /\ [][Next]_vars

TypeOK ==
  /\ pc \in {"unparsed", "parsed", "error"}
  /\ exc \in {"none", "IndexError", "ValueError"}
  /\ ret.err \in {"none", "ValueError"}

(* ------------------------- vocabulary of the claims -------------------- *)

\* the number of tab-separated tokens of a text: one more than its tabs
NumTokens(s) == Cardinality({i \in 1..Len(s) : s[i] = TAB}) + 1

Chars(s) == {s[i] : i \in 1..Len(s)}

\* the operations of a well-formed operations string, as (length, code)
\* pairs: positive digit-runs, each followed by one letter of CigarCodes
RECURSIVE OperationsFrom(_, _, _)
OperationsFrom(c, i, acc) ==
  IF i > Len(c) THEN Ok(acc)
  ELSE IF c[i] \notin Digits THEN Raise("MalformedOperationsError")
  ELSE LET j == RunEnd(c, i, Digits)
           n == DigitsValue(SubSeq(c, i, j))
       IN IF j = Len(c) \/ n = 0 THEN Raise("MalformedOperationsError")
          ELSE IF c[j + 1] \notin CigarCodes THEN Raise("MalformedOperationsError")
          ELSE OperationsFrom(c, j + 2, Append(acc, [length |-> n, code |-> c[j + 1]]))

Operations(c) ==
  IF c = <<>> THEN Raise("MalformedOperationsError") ELSE OperationsFrom(c, 1, <<>>)

IsWellFormedCigar(c) == Operations(c).err = "none"

RECURSIVE SumReferenceOps(_)
SumReferenceOps(ops) ==
  IF ops = <<>> THEN 0
  ELSE (IF Head(ops).code \in {"I", "S", "H", "P"} THEN 0 ELSE Head(ops).length)
         + SumReferenceOps(Tail(ops))

\* decimal text without sign +, leading zeros, blanks or underscores
IsCanonicalInt(t) ==
  LET b == IF Len(t) > 0 /\ t[1] = "-" THEN Tail(t) ELSE t
  IN /\ Len(b) > 0
     /\ \A i \in 1..Len(b) : b[i] \in Digits
     /\ (b[1] = "0" => t = <<"0">>)

IntTokenIndexes == {2, 4, 5, 8, 9}

HasCanonicalInts(s) ==
  \A i \in IntTokenIndexes : IsCanonicalInt(Split(s, TAB)[i])

StringAttrs == {"qname", "rname", "cigar", "rnext", "seq", "qual"}

\* the tokens after the eleven positional ones, as the decoder receives them
OptionalTokens(s) == SliceFrom(Split(s, TAB), NumFields)

ColonCount(t) == Cardinality({i \in 1..Len(t) : t[i] = COLON})

\* TAG:TYPE:VALUE with a two-character tag and a one-character type
IsTagTypeValue(t) ==
  /\ Len(t) >= 5
  /\ t[3] = COLON /\ t[5] = COLON
  /\ COLON \notin {t[1], t[2], t[4]}

TagType(t) == SubSeq(t, 1, 4)

ValueText(t) == SubSeq(t, 6, Len(t))

\* the value a TAG:TYPE:VALUE token decodes to, by its type code
DecodesTo(t, v) ==
  IF t[4] = "i" THEN v = IntVal(int(ValueText(t)).val)
  ELSE IF t[4] = "f" THEN v = float(ValueText(t)).val
  ELSE v = StrVal(ValueText(t))

StrandBit(flag) == (flag \div 16) % 2 = 1

PositionProperties == {"right_pos", "five_prime_pos", "three_prime_pos", "middle_pos"}

(* --------------------------------- claims ------------------------------ *)

\* C1: for a well-formed operations string over {M,I,D,N,S,H,P,=,X},
\* reference_length returns the sum of the run lengths of the operations
\* whose code is none of I, S, H, P.
C1_ReferenceLengthSumsReferenceOps ==
  (ret.op = "reference_length" /\ IsWellFormedCigar(self.cigar))
    => /\ ret.err = "none"
       /\ ret.val = SumReferenceOps(Operations(self.cigar).val)

\* C2: a line of fewer than 11 tab-separated tokens raises and yields no
\* object; the constructor ends either with an object that has all eleven
\* positional attributes or with an exception and no object.
C2_ShortLineRaisesNoPartialRecord ==
  pc # "unparsed"
    => /\ NumTokens(line) < NumFields => pc = "error"
       /\ pc = "error" => (exc # "none" /\ self = <<>>)
       /\ pc = "parsed" =>
            (exc = "none" /\ \A i \in 1..NumFields : Attrs[i] \in DOMAIN self)

C2_Witness ==
  /\ pc = "error"
  /\ NumTokens(line) = 8
  /\ exc = "IndexError"

\* C3 as stated: for a line of exactly 11 tokens that parses, get_record
\* returns the line followed by a tab and a newline, whatever the text of
\* its integer fields.
C3_RoundTripAnyIntegerText ==
  (ret.op = "get_record" /\ NumTokens(line) = NumFields)
    => ret.text = line \o <<TAB, NL>>

\* C3 amended: for a line of exactly 11 tokens whose integer fields FLAG,
\* POS, MAPQ, PNEXT and TLEN are canonical decimal text, get_record returns
\* the line followed by a tab and a newline.
C3_RoundTripCanonicalIntegers ==
  (ret.op = "get_record" /\ NumTokens(line) = NumFields /\ HasCanonicalInts(line))
    => ret.text = line \o <<TAB, NL>>

C3_Witness ==
  /\ ret.op = "get_record"
  /\ NumTokens(line) = NumFields
  /\ HasCanonicalInts(line)
  /\ self.tlen = -7
  /\ ret.text = line \o <<TAB, NL>>

\* C4: every optional token TAG:TYPE:VALUE, also one whose VALUE holds
\* colons, is stored under the key TAG:TYPE and nothing more, with its value
\* decoded by TYPE.
C4_KeyIsTagAndType ==
  (pc = "parsed" /\ \A k \in DOMAIN OptionalTokens(line) :
                      IsTagTypeValue(OptionalTokens(line)[k]))
    => /\ \A k \in DOMAIN OptionalTokens(line) :
            \E e \in DOMAIN self.optional :
              self.optional[e].key = TagType(OptionalTokens(line)[k])
       /\ \A e \in DOMAIN self.optional :
            \E k \in DOMAIN OptionalTokens(line) :
              /\ self.optional[e].key = TagType(OptionalTokens(line)[k])
              /\ DecodesTo(OptionalTokens(line)[k], self.optional[e].value)

\* C5: a line with an optional token of fewer than two colons, or of type i
\* with a value that is no integer literal, raises; no such token is stored.
C5_MalformedOptionalRaises ==
  (/\ pc # "unparsed"
   /\ \E k \in DOMAIN OptionalTokens(line) :
        LET t == OptionalTokens(line)[k]
        IN \/ ColonCount(t) < 2
           \/ (IsTagTypeValue(t) /\ t[4] = "i" /\ int(ValueText(t)).err # "none"))
    => pc = "error"

\* C6: an operations string that is not * and does not strictly alternate
\* a digit-run and one operation letter makes reference_length raise.
C6_MalformedOperationsRaise ==
  (/\ ret.op = "reference_length"
   /\ self.cigar # <<"*">>
   /\ ~IsWellFormedCigar(self.cigar))
    => ret.err # "none"

\* C7: with the operations string *, reference_length is 0 and right_pos,
\* five_prime_pos, three_prime_pos and middle_pos return no number.
C7_StarPositionsUndefined ==
  (pc = "parsed" /\ self.cigar = <<"*">>)
    => /\ ret.op = "reference_length" => (ret.err = "none" /\ ret.val = 0)
       /\ ret.op \in PositionProperties => ret.err # "none"

\* C8: middle_pos is the mean of left_pos and right_pos rounded to the
\* nearest integer, a tie going to the even neighbour.
C8_MiddleRoundsHalfToEven ==
  (ret.op = "middle_pos" /\ ret.err = "none")
    => LET sum == self.left_pos + right_pos(self).val
       IN /\ sum % 2 = 0 => 2 * ret.val = sum
          /\ sum % 2 = 1 =>
               (ret.val % 2 = 0 /\ (2 * ret.val = sum + 1 \/ 2 * ret.val = sum - 1))

C8_Witness ==
  /\ ret.op = "middle_pos"
  /\ self.left_pos = 100
  /\ right_pos(self) = Ok(109)
  /\ ret.val = 104

\* C9: for an operations string other than *, right_pos - left_pos + 1 is
\* reference_length, and bit 0x10 of flag alone selects the ends: set,
\* five_prime_pos is right_pos and three_prime_pos is left_pos; unset, the
\* reverse.
C9_SpanAndStrandEnds ==
  (pc = "parsed" /\ self.cigar # <<"*">>)
    => /\ (ret.op = "right_pos" /\ ret.err = "none") =>
            ret.val - self.left_pos + 1 = reference_length(self).val
       /\ ret.op = "five_prime_pos" =>
            IF StrandBit(self.flag)
            THEN ret = Returned("five_prime_pos", right_pos(self))
            ELSE ret = Returned("five_prime_pos", Ok(self.left_pos))
       /\ ret.op = "three_prime_pos" =>
            IF StrandBit(self.flag)
            THEN ret = Returned("three_prime_pos", Ok(self.left_pos))
            ELSE ret = Returned("three_prime_pos", right_pos(self))

C9_Witness ==
  /\ pc = "parsed"
  /\ self.flag = 83
  /\ self.cigar = <<"5", "M", "2", "I", "3", "M">>
  /\ ret.op = "five_prime_pos"
  /\ ret.err = "none"
  /\ ret.val = self.left_pos + 7

\* C10: the newline that ends a line is stripped before the split, so no
\* stored string holds a newline and the line parses to the same object with
\* and without it.
C10_NewlineStripped ==
  pc = "parsed"
    => /\ \A a \in StringAttrs : NL \notin Chars(self[a])
       /\ \A e \in DOMAIN self.optional :
            self.optional[e].value.kind = "str"
              => NL \notin Chars(self.optional[e].value.s)
       /\ (Len(line) > 0 /\ line[Len(line)] = NL)
            => Sam(SubSeq(line, 1, Len(line) - 1)) = Ok(self)

====
